---- MODULE Spec2Model ----
(***************************************************************************)
(* Model of the scoped lock guards of mongo/db/concurrency/d_concurrency.h *)
(* (class Lock, readlocktry, writelocktry) on top of the per-context       *)
(* Locker.  Each execution context owns one Locker (held[c]) and a stack   *)
(* of live guards (guards[c]); pend[c] is the position of the context      *)
(* inside a constructor, relock or restore that can block.                 *)
(***************************************************************************)
EXTENDS Naturals, Sequences, FiniteSets

\* Execution contexts (threads), each with its own Locker.
Ctx == {"A", "B"}

\* Largest number of guards a context nests while another context runs, and
\* largest number it nests while it runs alone.
MaxDepth == 2

MaxNest == 4

\* LockMode values used by the guards, and the value for "not locked".
Modes == {"IS", "IX", "S", "X"}

MODE_NONE == "NONE"

\* The resources of the model: the global resource, one database, one
\* collection of that database and one resource outside the hierarchy.
Global == "Global"

Db == "Db"

Coll == "Coll"

Gen == "Gen"

Res == {Global, Db, Coll, Gen}

\* Order in which a lock snapshot is restored (ancestors first).
ResOrder == <<Global, Db, Coll, Gen>>

\* Storage engines: "doc" supports document-level locking, "coll" supports
\* collection-level but not document-level locking, "none" supports neither.
Engines == {"doc", "coll", "none"}

\* timeoutms of a Global guard: UINT_MAX (wait forever), 0, or a positive wait.
Timeouts == {"INF", "ZERO", "POS"}

VARIABLES engine, held, guards, pend, batchExcl, isBatchWriter, aborted

vars == <<engine, held, guards, pend, batchExcl, isBatchWriter, aborted>>

NoCtx == "none"

----------------------------------------------------------------------------
\* Mode lattice

\* Compatible with a wrong entry: S does not block IX.
CompatibleSharedLetsIntentWrite(a, b) ==
    \/ a = "IS" /\ b \in {"IS", "IX", "S"}
    \/ a = "IX" /\ b \in {"IS", "IX", "S"}
    \/ a = "S" /\ b \in {"S", "IS", "IX"}

\* Two modes that different contexts may hold on one resource at once.
Compatible(a, b) ==
    \/ a = "IS" /\ b \in {"IS", "IX", "S"}
    \/ a = "IX" /\ b \in {"IS", "IX"}
    \/ a = "S" /\ b \in {"S", "IS"}

\* A held mode h covers a request for m: m is the same mode or a weaker one.
Covers(h, m) ==
    \/ h = "X"
    \/ h = "S" /\ m \in {"S", "IS"}
    \/ h = "IX" /\ m \in {"IX", "IS"}
    \/ h = "IS" /\ m = "IS"

isSharedMode(m) == m \in {"IS", "S"}

\* GlobalIntentFor that takes the shared intent for every mode.
GlobalIntentAlwaysShared(m) == "IS"

\* Global intent taken by a DBLock of mode m, and database intent a
\* CollectionLock of mode m needs.
GlobalIntentFor(m) == IF isSharedMode(m) THEN "IS" ELSE "IX"

\* Mode a DBLock really takes on the database.
DbModeFor(m) ==
    IF engine \in {"doc", "coll"} THEN m
    ELSE IF isSharedMode(m) THEN "S" ELSE "X"

\* Mode a CollectionLock really takes on the collection.
CollModeFor(m) ==
    IF engine = "doc" THEN m
    ELSE IF isSharedMode(m) THEN "S" ELSE "X"

\* RelockAllowed without the restriction.
RelockAlwaysAllowed(old, new) == old \in Modes /\ new \in Modes

\* A relock may not turn a read guard into a write guard.
RelockAllowed(old, new) == ~isSharedMode(old) \/ isSharedMode(new)

----------------------------------------------------------------------------
\* Locker: the lock state of one context, resource -> (mode, count)

NotHeld == [mode |-> MODE_NONE, count |-> 0]

EmptyLocks == [r \in Res |-> NotHeld]

IsHeld(c, r) == held[c][r].count > 0

\* The request of c for r in mode m can be granted now: a reentrant request
\* in a covered mode never waits, a fresh one waits for every other holder
\* to be compatible.
CanAcquire(c, r, m) ==
    IF IsHeld(c, r)
    THEN Covers(held[c][r].mode, m)
    ELSE \A d \in Ctx \ {c} : IsHeld(d, r) => Compatible(held[d][r].mode, m)

\* Lock state h after the grant of r in mode m.
Acquired(h, r, m) ==
    IF h[r].count > 0
    THEN [h EXCEPT ![r].count = @ + 1]
    ELSE [h EXCEPT ![r] = [mode |-> m, count |-> 1]]

\* Lock state h after one unlock of r.
Released(h, r) ==
    IF h[r].count > 1 THEN [h EXCEPT ![r].count = @ - 1]
    ELSE [h EXCEPT ![r] = NotHeld]

\* The callers of the model re-request a resource they hold only in a mode
\* the held mode covers (reentrant acquisition).
Reentrant(h, r, m) == h[r].count > 0 => Covers(h[r].mode, m)

----------------------------------------------------------------------------
\* Guards and positions

Guard(kind, res, mode, pbws, flag, snap) ==
    [kind |-> kind, res |-> res, mode |-> mode, pbws |-> pbws,
     flag |-> flag, snap |-> snap]

Idle == [op |-> "idle", kind |-> "-", mode |-> MODE_NONE, tmo |-> "INF",
         pbws |-> FALSE, helper |-> "-", idx |-> 0]

IsIdle(c) == pend[c].op = "idle"

Top(c) == guards[c][Len(guards[c])]

Pop(s) == SubSeq(s, 1, Len(s) - 1)

\* c holds the shared side of the batch lock (through a ScopedLock).
HoldsBatchShared(c) ==
    \/ pend[c].pbws
    \/ \E i \in 1..Len(guards[c]) : guards[c][i].pbws

\* c can start an operation.
CanStart(c) == ~aborted /\ IsIdle(c)

\* Lock guards of c, the one under construction included (a
\* ParallelBatchWriterMode, which locks no resource, is not counted).
Nesting(c) ==
    Cardinality({i \in 1..Len(guards[c]) : guards[c][i].kind # "ParallelBatchWriterMode"}) +
    (IF pend[c].op \in {"pbws", "lockGlobal", "waitGlobal", "lockDb", "threw"} THEN 1 ELSE 0)

\* c runs alone: no other context has a guard or is inside an operation.
Alone(c) == \A d \in Ctx \ {c} : Nesting(d) = 0

\* c can construct one more guard.
CanNest(c) ==
    /\ CanStart(c)
    /\ \/ Nesting(c) < MaxDepth
       \/ Nesting(c) < MaxNest /\ Alone(c)
    /\ \A d \in Ctx \ {c} : Nesting(d) <= MaxDepth

Init ==
    /\ engine \in Engines
    /\ held = [c \in Ctx |-> EmptyLocks]
    /\ guards = [c \in Ctx |-> <<>>]
    /\ pend = [c \in Ctx |-> Idle]
    /\ batchExcl = NoCtx
    /\ isBatchWriter = [c \in Ctx |-> FALSE]
    /\ aborted = FALSE

----------------------------------------------------------------------------
\* ScopedLock, GlobalWrite, GlobalRead, DBLock construction

\* Mode the constructor of a ScopedLock subclass requests on Global.
GlobalModeOf(kind, m) ==
    IF kind = "GlobalWrite" THEN "X"
    ELSE IF kind = "GlobalRead" THEN "S"
    ELSE GlobalIntentFor(m)

\* ScopedLockCtor that goes straight to the Global request, without the
\* shared side of the batch lock.
ScopedLockCtorSkipsBatchLock(c, kind, m, tmo, helper) ==
    /\ CanNest(c)
    /\ Reentrant(held[c], Global, GlobalModeOf(kind, m))
    /\ pend' = [pend EXCEPT ![c] =
                  [op |-> "lockGlobal", kind |-> kind, mode |-> m, tmo |-> tmo,
                   pbws |-> FALSE, helper |-> helper, idx |-> 0]]
    /\ UNCHANGED <<engine, held, guards, batchExcl, isBatchWriter, aborted>>

\* ScopedLock::ScopedLock: a context that is not a batch participant takes
\* the shared side of the batch lock (waiting while another context holds
\* the exclusive side); the subclass constructor then requests Global.
ScopedLockCtor(c, kind, m, tmo, helper) ==
    /\ CanNest(c)
    /\ isBatchWriter[c] \/ batchExcl \in {NoCtx, c}
    /\ Reentrant(held[c], Global, GlobalModeOf(kind, m))
    /\ pend' = [pend EXCEPT ![c] =
                  [op |-> "lockGlobal", kind |-> kind, mode |-> m, tmo |-> tmo,
                   pbws |-> ~isBatchWriter[c], helper |-> helper, idx |-> 0]]
    /\ UNCHANGED <<engine, held, guards, batchExcl, isBatchWriter, aborted>>

GlobalWriteCtor(c, tmo) == ScopedLockCtor(c, "GlobalWrite", MODE_NONE, tmo, "-")

GlobalReadCtor(c, tmo) == ScopedLockCtor(c, "GlobalRead", MODE_NONE, tmo, "-")

DBLockCtor(c, m) ==
    /\ Reentrant(held[c], Db, DbModeFor(m))
    /\ ScopedLockCtor(c, "DBLock", m, "INF", "-")

\* readlocktry / writelocktry: a GlobalRead / GlobalWrite built with tryms.
readlocktryCtor(c, tmo) == ScopedLockCtor(c, "GlobalRead", MODE_NONE, tmo, "readlocktry")

writelocktryCtor(c, tmo) == ScopedLockCtor(c, "GlobalWrite", MODE_NONE, tmo, "writelocktry")

InLockGlobal(c) == pend[c].op \in {"lockGlobal", "waitGlobal"}

PendGlobalMode(c) == GlobalModeOf(pend[c].kind, pend[c].mode)

\* lockGlobal is granted: a Global guard (or the helper holding it) is
\* complete, a DBLock goes on to lock its database.
LockGlobalGrant(c) ==
    /\ ~aborted
    /\ InLockGlobal(c)
    /\ CanAcquire(c, Global, PendGlobalMode(c))
    /\ held' = [held EXCEPT ![c] = Acquired(@, Global, PendGlobalMode(c))]
    /\ IF pend[c].kind = "DBLock"
       THEN /\ pend' = [pend EXCEPT ![c].op = "lockDb"]
            /\ UNCHANGED guards
       ELSE /\ pend' = [pend EXCEPT ![c] = Idle]
            /\ guards' = [guards EXCEPT ![c] = Append(@,
                 Guard(IF pend[c].helper = "-" THEN pend[c].kind ELSE pend[c].helper,
                       Global, MODE_NONE, pend[c].pbws, pend[c].helper # "-",
                       EmptyLocks))]
    /\ UNCHANGED <<engine, batchExcl, isBatchWriter, aborted>>

\* A request with a positive timeout that conflicts starts to wait.
LockGlobalWait(c) ==
    /\ ~aborted
    /\ pend[c].op = "lockGlobal"
    /\ pend[c].tmo = "POS"
    /\ ~CanAcquire(c, Global, PendGlobalMode(c))
    /\ pend' = [pend EXCEPT ![c].op = "waitGlobal"]
    /\ UNCHANGED <<engine, held, guards, batchExcl, isBatchWriter, aborted>>

\* LOCK_TIMEOUT: at once with timeout 0, after the wait otherwise.  The
\* constructor throws DBTryLockTimeoutException; unwinding destroys the
\* ScopedLock base and with it the shared hold on the batch lock.
LockGlobalTimeout(c) ==
    /\ ~aborted
    /\ \/ pend[c].op = "lockGlobal" /\ pend[c].tmo = "ZERO"
       \/ pend[c].op = "waitGlobal"
    /\ ~CanAcquire(c, Global, PendGlobalMode(c))
    /\ pend' = [pend EXCEPT ![c].op = "threw", ![c].pbws = FALSE]
    /\ UNCHANGED <<engine, held, guards, batchExcl, isBatchWriter, aborted>>

\* ThrowToCaller that reports the timeout with the requested Global lock
\* recorded for the context.
ThrowToCallerKeepsLock(c) ==
    /\ ~aborted
    /\ pend[c].op = "threw"
    /\ pend[c].helper = "-"
    /\ pend' = [pend EXCEPT ![c] = Idle]
    /\ held' = [held EXCEPT ![c] = Acquired(@, Global, PendGlobalMode(c))]
    /\ UNCHANGED <<engine, guards, batchExcl, isBatchWriter, aborted>>

\* The exception of a Global guard built directly reaches the caller.
ThrowToCaller(c) ==
    /\ ~aborted
    /\ pend[c].op = "threw"
    /\ pend[c].helper = "-"
    /\ pend' = [pend EXCEPT ![c] = Idle]
    /\ UNCHANGED <<engine, held, guards, batchExcl, isBatchWriter, aborted>>

\* TryCatch that reports success although the lock timed out.
TryCatchSetsGot(c) ==
    /\ ~aborted
    /\ pend[c].op = "threw"
    /\ pend[c].helper # "-"
    /\ pend' = [pend EXCEPT ![c] = Idle]
    /\ guards' = [guards EXCEPT ![c] = Append(@,
         Guard(pend[c].helper, Global, MODE_NONE, FALSE, TRUE, EmptyLocks))]
    /\ UNCHANGED <<engine, held, batchExcl, isBatchWriter, aborted>>

\* readlocktry / writelocktry catch the exception: _got stays false and the
\* helper holds no guard.
TryCatch(c) ==
    /\ ~aborted
    /\ pend[c].op = "threw"
    /\ pend[c].helper # "-"
    /\ pend' = [pend EXCEPT ![c] = Idle]
    /\ guards' = [guards EXCEPT ![c] = Append(@,
         Guard(pend[c].helper, Global, MODE_NONE, FALSE, FALSE, EmptyLocks))]
    /\ UNCHANGED <<engine, held, batchExcl, isBatchWriter, aborted>>

\* DBLock: after Global, lock the database.
LockDb(c) ==
    /\ ~aborted
    /\ pend[c].op = "lockDb"
    /\ CanAcquire(c, Db, DbModeFor(pend[c].mode))
    /\ held' = [held EXCEPT ![c] = Acquired(@, Db, DbModeFor(pend[c].mode))]
    /\ guards' = [guards EXCEPT ![c] = Append(@,
         Guard("DBLock", Db, pend[c].mode, pend[c].pbws, FALSE, EmptyLocks))]
    /\ pend' = [pend EXCEPT ![c] = Idle]
    /\ UNCHANGED <<engine, batchExcl, isBatchWriter, aborted>>

----------------------------------------------------------------------------
\* Destructors of the ScopedLock subclasses and of the helpers

CanDestroy(c, kinds) ==
    /\ CanStart(c)
    /\ Len(guards[c]) > 0
    /\ Top(c).kind \in kinds

\* GlobalDtor that drops the Global lock whatever its reference count.
GlobalDtorReleasesAll(c) ==
    /\ CanDestroy(c, {"GlobalWrite", "GlobalRead"})
    /\ held' = [held EXCEPT ![c][Global] = NotHeld]
    /\ guards' = [guards EXCEPT ![c] = Pop(@)]
    /\ UNCHANGED <<engine, pend, batchExcl, isBatchWriter, aborted>>

\* ~GlobalWrite / ~GlobalRead: one unlock of Global.
GlobalDtor(c) ==
    /\ CanDestroy(c, {"GlobalWrite", "GlobalRead"})
    /\ held' = [held EXCEPT ![c] = Released(@, Global)]
    /\ guards' = [guards EXCEPT ![c] = Pop(@)]
    /\ UNCHANGED <<engine, pend, batchExcl, isBatchWriter, aborted>>

\* DBLockDtor that forgets the Global lock its constructor took.
DBLockDtorKeepsGlobal(c) ==
    /\ CanDestroy(c, {"DBLock"})
    /\ held' = [held EXCEPT ![c] = Released(@, Db)]
    /\ guards' = [guards EXCEPT ![c] = Pop(@)]
    /\ UNCHANGED <<engine, pend, batchExcl, isBatchWriter, aborted>>

\* ~DBLock: unlock the database, then Global.
DBLockDtor(c) ==
    /\ CanDestroy(c, {"DBLock"})
    /\ held' = [held EXCEPT ![c] = Released(Released(@, Db), Global)]
    /\ guards' = [guards EXCEPT ![c] = Pop(@)]
    /\ UNCHANGED <<engine, pend, batchExcl, isBatchWriter, aborted>>

\* ~readlocktry / ~writelocktry: destroys the guard it holds, if any.
TryDtor(c) ==
    /\ CanDestroy(c, {"readlocktry", "writelocktry"})
    /\ held' = [held EXCEPT ![c] = IF Top(c).flag THEN Released(@, Global) ELSE @]
    /\ guards' = [guards EXCEPT ![c] = Pop(@)]
    /\ UNCHANGED <<engine, pend, batchExcl, isBatchWriter, aborted>>

----------------------------------------------------------------------------
\* CollectionLock and ResourceLock

\* DbLockedForMode that does not look at the mode of the database lock.
DbLockedInAnyMode(c, m) == IsHeld(c, Db) /\ m \in Modes

\* isDbLockedForMode: c holds the database in a mode that covers m.
DbLockedForMode(c, m) == IsHeld(c, Db) /\ Covers(held[c][Db].mode, m)

\* CollectionLockCtor without the check of the database lock.
CollectionLockCtorUnchecked(c, m) ==
    /\ CanNest(c)
    /\ Reentrant(held[c], Coll, CollModeFor(m))
    /\ CanAcquire(c, Coll, CollModeFor(m))
    /\ held' = [held EXCEPT ![c] = Acquired(@, Coll, CollModeFor(m))]
    /\ guards' = [guards EXCEPT ![c] = Append(@,
         Guard("CollectionLock", Coll, MODE_NONE, FALSE, FALSE, EmptyLocks))]
    /\ UNCHANGED <<engine, pend, batchExcl, isBatchWriter, aborted>>

\* CollectionLock::CollectionLock: the suitable-database-lock check passed,
\* the collection is locked (no ScopedLock base, no Global request).
CollectionLockCtor(c, m) ==
    /\ CanNest(c)
    /\ DbLockedForMode(c, GlobalIntentFor(m))
    /\ Reentrant(held[c], Coll, CollModeFor(m))
    /\ CanAcquire(c, Coll, CollModeFor(m))
    /\ held' = [held EXCEPT ![c] = Acquired(@, Coll, CollModeFor(m))]
    /\ guards' = [guards EXCEPT ![c] = Append(@,
         Guard("CollectionLock", Coll, MODE_NONE, FALSE, FALSE, EmptyLocks))]
    /\ UNCHANGED <<engine, pend, batchExcl, isBatchWriter, aborted>>

\* The check of CollectionLock::CollectionLock fails: the operation is
\* aborted with nothing locked.
CollectionLockAssert(c, m) ==
    /\ CanNest(c)
    /\ ~DbLockedForMode(c, GlobalIntentFor(m))
    /\ aborted' = TRUE
    /\ UNCHANGED <<engine, held, guards, pend, batchExcl, isBatchWriter>>

CollectionLockDtor(c) ==
    /\ CanDestroy(c, {"CollectionLock"})
    /\ held' = [held EXCEPT ![c] = Released(@, Coll)]
    /\ guards' = [guards EXCEPT ![c] = Pop(@)]
    /\ UNCHANGED <<engine, pend, batchExcl, isBatchWriter, aborted>>

\* ResourceLockCtor that locks Global in the intent mode first, as a DBLock
\* does.
ResourceLockCtorLocksGlobal(c, m) ==
    /\ CanNest(c)
    /\ Reentrant(held[c], Gen, m)
    /\ CanAcquire(c, Gen, m)
    /\ held' = [held EXCEPT ![c] =
                  Acquired(Acquired(@, Global, GlobalIntentFor(m)), Gen, m)]
    /\ guards' = [guards EXCEPT ![c] = Append(@,
         Guard("ResourceLock", Gen, MODE_NONE, FALSE, FALSE, EmptyLocks))]
    /\ UNCHANGED <<engine, pend, batchExcl, isBatchWriter, aborted>>

\* ResourceLock: one lock of the resource, nothing else.
ResourceLockCtor(c, m) ==
    /\ CanNest(c)
    /\ Reentrant(held[c], Gen, m)
    /\ CanAcquire(c, Gen, m)
    /\ held' = [held EXCEPT ![c] = Acquired(@, Gen, m)]
    /\ guards' = [guards EXCEPT ![c] = Append(@,
         Guard("ResourceLock", Gen, MODE_NONE, FALSE, FALSE, EmptyLocks))]
    /\ UNCHANGED <<engine, pend, batchExcl, isBatchWriter, aborted>>

ResourceLockDtor(c) ==
    /\ CanDestroy(c, {"ResourceLock"})
    /\ held' = [held EXCEPT ![c] = Released(@, Gen)]
    /\ guards' = [guards EXCEPT ![c] = Pop(@)]
    /\ UNCHANGED <<engine, pend, batchExcl, isBatchWriter, aborted>>

----------------------------------------------------------------------------
\* relockWithMode

\* Index of the innermost TempRelease of c that released the locks (0: none).
\* The guards below it hold nothing until it is destroyed.
ReleasedBelow(c) ==
    LET S == {i \in 1..Len(guards[c]) :
                guards[c][i].kind = "TempRelease" /\ guards[c][i].flag}
    IN IF S = {} THEN 0 ELSE CHOOSE i \in S : \A j \in S : j <= i

\* Guard i of c is one whose lock c holds now.
Locked(c, i) == i \in (ReleasedBelow(c) + 1)..Len(guards[c])

\* The check of relockWithMode fails: the operation is aborted, nothing is
\* released.
RelockAssert(c, i, new) ==
    /\ CanStart(c)
    /\ Locked(c, i)
    /\ \/ guards[c][i].kind = "DBLock"
          /\ ~RelockAllowed(guards[c][i].mode, new)
       \/ guards[c][i].kind = "CollectionLock"
          /\ ~RelockAllowed(held[c][Coll].mode, new)
    /\ aborted' = TRUE
    /\ UNCHANGED <<engine, held, guards, pend, batchExcl, isBatchWriter>>

\* DBLockRelock that gives up the Global intent lock with the database.
DBLockRelockDropsGlobal(c, i, new) ==
    /\ CanStart(c)
    /\ Locked(c, i)
    /\ guards[c][i].kind = "DBLock"
    /\ RelockAllowed(guards[c][i].mode, new)
    /\ Reentrant(Released(held[c], Db), Db, DbModeFor(new))
    /\ held' = [held EXCEPT ![c] = Released(Released(@, Db), Global)]
    /\ guards' = [guards EXCEPT ![c][i].mode = new]
    /\ pend' = [pend EXCEPT ![c] =
                  [Idle EXCEPT !.op = "relock", !.kind = "DBLock",
                               !.mode = new, !.idx = i]]
    /\ UNCHANGED <<engine, batchExcl, isBatchWriter, aborted>>

\* DBLock::relockWithMode, first half: the database is unlocked and _mode
\* set; Global is not touched.
DBLockRelock(c, i, new) ==
    /\ CanStart(c)
    /\ Locked(c, i)
    /\ guards[c][i].kind = "DBLock"
    /\ RelockAllowed(guards[c][i].mode, new)
    /\ Reentrant(Released(held[c], Db), Db, DbModeFor(new))
    /\ held' = [held EXCEPT ![c] = Released(@, Db)]
    /\ guards' = [guards EXCEPT ![c][i].mode = new]
    /\ pend' = [pend EXCEPT ![c] =
                  [Idle EXCEPT !.op = "relock", !.kind = "DBLock",
                               !.mode = new, !.idx = i]]
    /\ UNCHANGED <<engine, batchExcl, isBatchWriter, aborted>>

\* CollectionLock::relockWithMode, first half: the collection is unlocked;
\* the database lock of dblock is not touched.
CollectionLockRelock(c, i, new) ==
    /\ CanStart(c)
    /\ Locked(c, i)
    /\ guards[c][i].kind = "CollectionLock"
    /\ RelockAllowed(held[c][Coll].mode, new)
    /\ Reentrant(Released(held[c], Coll), Coll, CollModeFor(new))
    /\ held' = [held EXCEPT ![c] = Released(@, Coll)]
    /\ pend' = [pend EXCEPT ![c] =
                  [Idle EXCEPT !.op = "relock", !.kind = "CollectionLock",
                               !.mode = new, !.idx = i]]
    /\ UNCHANGED <<engine, guards, batchExcl, isBatchWriter, aborted>>

RelockRes(c) == IF pend[c].kind = "DBLock" THEN Db ELSE Coll

RelockMode(c) ==
    IF pend[c].kind = "DBLock" THEN DbModeFor(pend[c].mode)
    ELSE CollModeFor(pend[c].mode)

\* RelockAcquire that switches the mode without waiting for the other holders.
RelockAcquireNoWait(c) ==
    /\ ~aborted
    /\ pend[c].op = "relock"
    /\ held' = [held EXCEPT ![c] = Acquired(@, RelockRes(c), RelockMode(c))]
    /\ pend' = [pend EXCEPT ![c] = Idle]
    /\ UNCHANGED <<engine, guards, batchExcl, isBatchWriter, aborted>>

\* relockWithMode, second half: the resource is locked in the new mode.
RelockAcquire(c) ==
    /\ ~aborted
    /\ pend[c].op = "relock"
    /\ CanAcquire(c, RelockRes(c), RelockMode(c))
    /\ held' = [held EXCEPT ![c] = Acquired(@, RelockRes(c), RelockMode(c))]
    /\ pend' = [pend EXCEPT ![c] = Idle]
    /\ UNCHANGED <<engine, guards, batchExcl, isBatchWriter, aborted>>

----------------------------------------------------------------------------
\* TempRelease

\* CanRelease that ignores recursive locking.
CanReleaseAnyway(h) == \A r \in Res : h[r].count >= 0

\* saveLockStateAndUnlock fails when a lock is held recursively.
CanRelease(h) == \A r \in Res : h[r].count <= 1

\* TempReleaseCtor that gives up the exclusive side of the batch lock with
\* the locks.
TempReleaseCtorDropsBatchLock(c) ==
    /\ CanNest(c)
    /\ IF CanRelease(held[c])
       THEN /\ guards' = [guards EXCEPT ![c] = Append(@,
                 Guard("TempRelease", "-", MODE_NONE, FALSE, TRUE, held[c]))]
            /\ held' = [held EXCEPT ![c] = EmptyLocks]
            /\ batchExcl' = IF batchExcl = c THEN NoCtx ELSE batchExcl
       ELSE /\ guards' = [guards EXCEPT ![c] = Append(@,
                 Guard("TempRelease", "-", MODE_NONE, FALSE, FALSE, EmptyLocks))]
            /\ UNCHANGED <<held, batchExcl>>
    /\ UNCHANGED <<engine, pend, isBatchWriter, aborted>>

\* TempRelease::TempRelease: snapshot and release every lock, or do nothing.
TempReleaseCtor(c) ==
    /\ CanNest(c)
    /\ IF CanRelease(held[c])
       THEN /\ guards' = [guards EXCEPT ![c] = Append(@,
                 Guard("TempRelease", "-", MODE_NONE, FALSE, TRUE, held[c]))]
            /\ held' = [held EXCEPT ![c] = EmptyLocks]
       ELSE /\ guards' = [guards EXCEPT ![c] = Append(@,
                 Guard("TempRelease", "-", MODE_NONE, FALSE, FALSE, EmptyLocks))]
            /\ UNCHANGED held
    /\ UNCHANGED <<engine, pend, batchExcl, isBatchWriter, aborted>>

\* Resources of the snapshot of the TempRelease on top that are not yet
\* restored, in restore order.
ToRestore(c) ==
    SelectSeq(ResOrder, LAMBDA r : Top(c).snap[r].count > 0 /\ ~IsHeld(c, r))

\* TempReleaseDtor that never restores the snapshot.
TempReleaseDtorSkipsRestore(c) ==
    /\ CanDestroy(c, {"TempRelease"})
    /\ guards' = [guards EXCEPT ![c] = Pop(@)]
    /\ UNCHANGED <<engine, held, pend, batchExcl, isBatchWriter, aborted>>

\* TempRelease::~TempRelease: nothing to restore.
TempReleaseDtor(c) ==
    /\ CanDestroy(c, {"TempRelease"})
    /\ ~Top(c).flag \/ ToRestore(c) = <<>>
    /\ guards' = [guards EXCEPT ![c] = Pop(@)]
    /\ UNCHANGED <<engine, held, pend, batchExcl, isBatchWriter, aborted>>

\* TempReleaseRestore that puts the whole snapshot back in one step, without
\* waiting for any other holder.
TempReleaseRestoreAtOnce(c) ==
    /\ CanDestroy(c, {"TempRelease"})
    /\ Top(c).flag
    /\ ToRestore(c) # <<>>
    /\ held' = [held EXCEPT ![c] = Top(c).snap]
    /\ guards' = [guards EXCEPT ![c] = Pop(@)]
    /\ UNCHANGED <<engine, pend, batchExcl, isBatchWriter, aborted>>

\* TempRelease::~TempRelease: restoreLockState starts.
TempReleaseRestore(c) ==
    /\ CanDestroy(c, {"TempRelease"})
    /\ Top(c).flag
    /\ ToRestore(c) # <<>>
    /\ pend' = [pend EXCEPT ![c] = [Idle EXCEPT !.op = "restore"]]
    /\ UNCHANGED <<engine, held, guards, batchExcl, isBatchWriter, aborted>>

\* restoreLockState locks the next resource of the snapshot, in its saved
\* mode; after the last one the guard is gone.
RestoreStep(c) ==
    /\ ~aborted
    /\ pend[c].op = "restore"
    /\ LET r == Head(ToRestore(c))
           s == Top(c).snap[r]
       IN /\ CanAcquire(c, r, s.mode)
          /\ held' = [held EXCEPT ![c][r] = s]
          /\ IF Len(ToRestore(c)) = 1
             THEN /\ guards' = [guards EXCEPT ![c] = Pop(@)]
                  /\ pend' = [pend EXCEPT ![c] = Idle]
             ELSE UNCHANGED <<guards, pend>>
    /\ UNCHANGED <<engine, batchExcl, isBatchWriter, aborted>>

----------------------------------------------------------------------------
\* ParallelBatchWriterMode

\* ParallelBatchWriterModeCtor that does not wait for the shared holders.
ParallelBatchWriterModeCtorOverShared(c) ==
    /\ CanNest(c)
    /\ guards[c] = <<>>
    /\ batchExcl = NoCtx
    /\ batchExcl' = c
    /\ guards' = [guards EXCEPT ![c] = Append(@,
         Guard("ParallelBatchWriterMode", "-", MODE_NONE, FALSE, FALSE, EmptyLocks))]
    /\ UNCHANGED <<engine, held, pend, isBatchWriter, aborted>>

\* ParallelBatchWriterMode(): the exclusive side of _batchLock, granted when
\* no context holds either side.
ParallelBatchWriterModeCtor(c) ==
    /\ CanNest(c)
    /\ guards[c] = <<>>
    /\ batchExcl = NoCtx
    /\ \A d \in Ctx : ~HoldsBatchShared(d)
    /\ batchExcl' = c
    /\ guards' = [guards EXCEPT ![c] = Append(@,
         Guard("ParallelBatchWriterMode", "-", MODE_NONE, FALSE, FALSE, EmptyLocks))]
    /\ UNCHANGED <<engine, held, pend, isBatchWriter, aborted>>

ParallelBatchWriterModeDtor(c) ==
    /\ CanDestroy(c, {"ParallelBatchWriterMode"})
    /\ batchExcl' = NoCtx
    /\ guards' = [guards EXCEPT ![c] = Pop(@)]
    /\ UNCHANGED <<engine, held, pend, isBatchWriter, aborted>>

\* ScopedLock::ScopedLock of a context that is not a batch participant
\* while another context holds the exclusive side of the batch lock: the
\* constructor blocks in the shared lock of _pbws_lk.
ScopedLockCtorBlocks(c, kind, m) ==
    /\ CanNest(c)
    /\ ~isBatchWriter[c]
    /\ batchExcl \notin {NoCtx, c}
    /\ Reentrant(held[c], Global, GlobalModeOf(kind, m))
    /\ kind = "DBLock" => Reentrant(held[c], Db, DbModeFor(m))
    /\ pend' = [pend EXCEPT ![c] =
                  [op |-> "pbws", kind |-> kind, mode |-> m, tmo |-> "INF",
                   pbws |-> FALSE, helper |-> "-", idx |-> 0]]
    /\ UNCHANGED <<engine, held, guards, batchExcl, isBatchWriter, aborted>>

\* PbwsLockShared that does not wait for the exclusive holder.
PbwsLockSharedNoWait(c) ==
    /\ ~aborted
    /\ pend[c].op = "pbws"
    /\ pend' = [pend EXCEPT ![c].op = "lockGlobal", ![c].pbws = TRUE]
    /\ UNCHANGED <<engine, held, guards, batchExcl, isBatchWriter, aborted>>

\* PbwsLockShared that is granted only to a context holding no lock.
PbwsLockSharedWhenUnlocked(c) ==
    /\ ~aborted
    /\ pend[c].op = "pbws"
    /\ batchExcl = NoCtx
    /\ held[c] = EmptyLocks
    /\ pend' = [pend EXCEPT ![c].op = "lockGlobal", ![c].pbws = TRUE]
    /\ UNCHANGED <<engine, held, guards, batchExcl, isBatchWriter, aborted>>

\* The shared lock of _pbws_lk is granted once the exclusive side is free;
\* the subclass constructor goes on to request Global.
PbwsLockShared(c) ==
    /\ ~aborted
    /\ pend[c].op = "pbws"
    /\ batchExcl = NoCtx
    /\ pend' = [pend EXCEPT ![c].op = "lockGlobal", ![c].pbws = TRUE]
    /\ UNCHANGED <<engine, held, guards, batchExcl, isBatchWriter, aborted>>

\* iAmABatchParticipant: the context is marked as a batch writer.
iAmABatchParticipant(c) ==
    /\ CanStart(c)
    /\ guards[c] = <<>>
    /\ ~isBatchWriter[c]
    /\ isBatchWriter' = [isBatchWriter EXCEPT ![c] = TRUE]
    /\ UNCHANGED <<engine, held, guards, pend, batchExcl, aborted>>

----------------------------------------------------------------------------
\* Specifications

\* Modes the model requests on the resource outside the hierarchy.
GenModes == {"S", "X"}

\* Global guards that wait forever, the hierarchy, relocks, ResourceLock and
\* TempRelease.
GuardOps(c) ==
    \/ GlobalWriteCtor(c, "INF")
    \/ GlobalReadCtor(c, "INF")
    \/ LockGlobalGrant(c)
    \/ GlobalDtor(c)
    \/ \E m \in Modes : DBLockCtor(c, m)
    \/ LockDb(c)
    \/ DBLockDtor(c)
    \/ \E m \in Modes : CollectionLockCtor(c, m)
    \/ \E m \in Modes : CollectionLockAssert(c, m)
    \/ CollectionLockDtor(c)
    \/ \E i \in 1..MaxNest, m \in Modes : RelockAssert(c, i, m)
    \/ \E i \in 1..MaxNest, m \in Modes : DBLockRelock(c, i, m)
    \/ \E i \in 1..MaxNest, m \in Modes : CollectionLockRelock(c, i, m)
    \/ RelockAcquire(c)
    \/ \E m \in GenModes : ResourceLockCtor(c, m)
    \/ ResourceLockDtor(c)
    \/ TempReleaseCtor(c)
    \/ TempReleaseDtor(c)
    \/ TempReleaseRestore(c)
    \/ RestoreStep(c)

Next == \E c \in Ctx : GuardOps(c)

Spec == Init /\ [][Next]_vars

\* Global guards with every timeout, the bounded-wait helpers and
\* ResourceLock.
TimedOps(c) ==
    \/ \E t \in Timeouts : GlobalWriteCtor(c, t)
    \/ \E t \in Timeouts : GlobalReadCtor(c, t)
    \/ \E t \in {"ZERO", "POS"} : readlocktryCtor(c, t)
    \/ \E t \in {"ZERO", "POS"} : writelocktryCtor(c, t)
    \/ LockGlobalGrant(c)
    \/ LockGlobalWait(c)
    \/ LockGlobalTimeout(c)
    \/ ThrowToCaller(c)
    \/ TryCatch(c)
    \/ GlobalDtor(c)
    \/ TryDtor(c)
    \/ \E m \in GenModes : ResourceLockCtor(c, m)
    \/ ResourceLockDtor(c)

NextTimed == \E c \in Ctx : TimedOps(c)

SpecTimed == Init /\ [][NextTimed]_vars

\* A context inside a lock request keeps running: the request is granted,
\* starts to wait or times out, and a thrown timeout is delivered.
TimedProgress(c) ==
    LockGlobalGrant(c) \/ LockGlobalWait(c) \/ LockGlobalTimeout(c)
        \/ ThrowToCaller(c) \/ TryCatch(c)

SpecTimedFair == SpecTimed /\ \A c \in Ctx : WF_vars(TimedProgress(c))

\* Modes the guards of the barrier specification are constructed with: one
\* with the Global intent IX, one with IS.
BarrierModes == {"IX", "S"}

\* The batch barrier with the guards: ParallelBatchWriterMode, batch
\* participants, and Global, Database, Collection and Generic guards with a
\* TempRelease.
BarrierOps(c) ==
    \/ ParallelBatchWriterModeCtor(c)
    \/ ParallelBatchWriterModeDtor(c)
    \/ iAmABatchParticipant(c)
    \/ GlobalWriteCtor(c, "INF")
    \/ GlobalReadCtor(c, "INF")
    \/ \E m \in BarrierModes : DBLockCtor(c, m)
    \/ \E k \in {"GlobalWrite", "GlobalRead"} : ScopedLockCtorBlocks(c, k, MODE_NONE)
    \/ \E m \in BarrierModes : ScopedLockCtorBlocks(c, "DBLock", m)
    \/ PbwsLockShared(c)
    \/ LockGlobalGrant(c)
    \/ GlobalDtor(c)
    \/ LockDb(c)
    \/ DBLockDtor(c)
    \/ \E m \in BarrierModes : CollectionLockCtor(c, m)
    \/ \E m \in BarrierModes : CollectionLockAssert(c, m)
    \/ CollectionLockDtor(c)
    \/ \E m \in GenModes : ResourceLockCtor(c, m)
    \/ ResourceLockDtor(c)
    \/ TempReleaseCtor(c)
    \/ TempReleaseDtor(c)
    \/ TempReleaseRestore(c)
    \/ RestoreStep(c)

NextBarrier == \E c \in Ctx : BarrierOps(c)

SpecBarrier == Init /\ [][NextBarrier]_vars

\* A context inside a guard constructor keeps running: it takes the shared
\* side of the batch lock when that is free and Global when it is granted.
BarrierProgress(c) == PbwsLockShared(c) \/ LockGlobalGrant(c)

SpecBarrierFair == SpecBarrier /\ \A c \in Ctx : WF_vars(BarrierProgress(c))

----------------------------------------------------------------------------
\* Properties

\* Modes two different contexts hold on resource r at the same time.
HeldTogether(r) ==
    {<<held[c][r].mode, held[d][r].mode>> :
        <<c, d>> \in {p \in Ctx \X Ctx : p[1] # p[2] /\ IsHeld(p[1], r) /\ IsHeld(p[2], r)}}

\* C1: in every reachable state any two contexts that hold the same
\* resource hold it in modes the lattice allows together: S with S and IS,
\* IS with IS, IX and S, IX with IS and IX, X with nothing.
C1_HoldersCompatible ==
    \A r \in Res : \A c \in Ctx : \A d \in Ctx \ {c} :
        IsHeld(c, r) /\ IsHeld(d, r) =>
            LET a == held[c][r].mode
                b == held[d][r].mode
            IN /\ a # "X" /\ b # "X"
               /\ a = "S" => b \in {"S", "IS"}
               /\ a = "IX" => b \in {"IS", "IX"}
               /\ a = "IS" => b \in {"IS", "IX", "S"}

\* C1 witness: two contexts hold the database in different modes, one of
\* them through a relock that has completed.
C1_Witness ==
    /\ IsHeld("A", Db) /\ IsHeld("B", Db)
    /\ held["A"][Db].mode = "S" /\ held["B"][Db].mode = "IS"
    /\ IsIdle("A") /\ Len(guards["A"]) = 1 /\ guards["A"][1].mode = "S"
    /\ held["A"][Global].mode = "IX"

\* C2 as stated: no two contexts ever hold S on the same resource.
C2_NoTwoSharedHolders ==
    \A r \in Res : <<"S", "S">> \notin HeldTogether(r)

\* C2 as amended: the pairs of modes two contexts hold together on a
\* resource are among S-S, S-IS, IS-IS, IS-IX and IX-IX; no pair has X.
C2_PairsInTable ==
    \A r \in Res :
        HeldTogether(r) \subseteq
            {<<"S", "S">>, <<"S", "IS">>, <<"IS", "S">>, <<"IS", "IS">>,
             <<"IS", "IX">>, <<"IX", "IS">>, <<"IX", "IX">>}

\* C2 witness: two contexts hold S on Global together while the database is
\* held in IS by both.
C2_Witness ==
    /\ <<"S", "S">> \in HeldTogether(Global)
    /\ <<"IS", "IS">> \in HeldTogether(Db)

\* The lock c holds on resource r suits what it holds on the child of r:
\* any mode for a child in IS or S, IX or X for a child in IX or X.
AncestorSuits(c, r, child) ==
    IsHeld(c, child) =>
        /\ IsHeld(c, r)
        /\ held[c][child].mode \in {"IX", "X"} => held[c][r].mode \in {"IX", "X"}

\* c releases the database lock in a relock while it holds the collection.
RelockUnderCollection(c) ==
    /\ IsHeld(c, Coll)
    /\ pend[c].op = "idle"
    /\ pend'[c].op = "relock" /\ pend'[c].kind = "DBLock"

\* C3 as stated: in every reachable state a context that holds the
\* collection holds its database in a suiting intent mode, and a context
\* that holds the database holds Global in a suiting intent mode.
C3_HierarchyAlways ==
    \A c \in Ctx : AncestorSuits(c, Db, Coll) /\ AncestorSuits(c, Global, Db)

\* The database lock of c suits the collection lock c holds, is about to
\* re-acquire in a collection relock, or has saved in a lock snapshot.
CollectionSuited(c) ==
    /\ AncestorSuits(c, Db, Coll)
    /\ \A i \in 1..Len(guards[c]) :
          LET s == guards[c][i].snap
          IN s[Coll].count > 0 =>
                /\ s[Db].count > 0
                /\ s[Coll].mode \in {"IX", "X"} => s[Db].mode \in {"IX", "X"}
    /\ pend[c].op = "relock" /\ pend[c].kind = "CollectionLock" =>
          /\ IsHeld(c, Db)
          /\ pend[c].mode \in {"IX", "X"} => held[c][Db].mode \in {"IX", "X"}

\* C3 as amended: the database-to-Global half holds in every reachable
\* state; the collection-to-database half holds initially and is kept by
\* every step except a database relock made while the collection is held,
\* so it holds in every state reached without such a relock.
C3_Hierarchy ==
    /\ [](\A c \in Ctx : AncestorSuits(c, Global, Db))
    /\ [][\A c \in Ctx :
            CollectionSuited(c) /\ ~RelockUnderCollection(c)
                => CollectionSuited(c)']_vars

\* C3 witness: a context holds the collection in X under the database in IX
\* under Global in IX, each through its guard.
C3_Witness ==
    /\ held["A"][Coll].mode = "X"
    /\ held["A"][Db].mode = "IX"
    /\ held["A"][Global].mode = "IX"
    /\ Len(guards["A"]) = 2 /\ guards["A"][2].kind = "CollectionLock"

\* Intent mode the claims give for a guard of mode m: IS for IS and S, IX
\* for IX and X.
IntentOf(m) == IF m \in {"IS", "S"} THEN "IS" ELSE "IX"

\* Modes at least as strong as m.
AtLeast(m) ==
    IF m = "IS" THEN {"IS", "IX", "S", "X"}
    ELSE IF m = "IX" THEN {"IX", "X"}
    ELSE IF m = "S" THEN {"S", "X"}
    ELSE {"X"}

\* The step in which the DBLock constructor of c gets Global, and the step
\* in which it gets the database and completes.
DBLockGotGlobal(c) ==
    pend[c].kind = "DBLock" /\ InLockGlobal(c) /\ pend'[c].op = "lockDb"

DBLockCompleted(c) == pend[c].op = "lockDb" /\ pend'[c].op = "idle"

\* The database is requested only while Global is held in the intent mode
\* or a stronger one, and is not touched before.
C4_GlobalFirst ==
    /\ [](\A c \in Ctx : pend[c].op = "lockDb" =>
            IsHeld(c, Global) /\ held[c][Global].mode \in AtLeast(IntentOf(pend[c].mode)))
    /\ [][\A c \in Ctx :
            pend[c].kind = "DBLock" /\ InLockGlobal(c) => held'[c][Db] = held[c][Db]]_vars

\* C4 as stated: Global first, the database second, and on completion
\* Global is held in the intent mode of M and the database in M.
C4_ExactModes ==
    /\ C4_GlobalFirst
    /\ [][\A c \in Ctx : DBLockCompleted(c) =>
            /\ held'[c][Global].mode = IntentOf(pend[c].mode)
            /\ held'[c][Db].mode = pend[c].mode]_vars

\* C4 as amended: Global first, the database second.  A resource not held
\* before is held in the intent mode of M (Global) and in M (database), or
\* in the upgrade of M, S for IS and X for IX, on an engine without
\* collection-level locking; a resource the context held already keeps its
\* mode, which is at least as strong, and its count goes up by one.
C4_GlobalThenDatabase ==
    /\ C4_GlobalFirst
    /\ [][\A c \in Ctx : DBLockGotGlobal(c) =>
            /\ held'[c][Global].count = held[c][Global].count + 1
            /\ held'[c][Global].mode =
                 IF IsHeld(c, Global) THEN held[c][Global].mode
                 ELSE IntentOf(pend[c].mode)]_vars
    /\ [][\A c \in Ctx : DBLockCompleted(c) =>
            /\ held'[c][Global] = held[c][Global]
            /\ held'[c][Global].mode \in AtLeast(IntentOf(pend[c].mode))
            /\ held'[c][Db].count = held[c][Db].count + 1
            /\ held'[c][Db].mode \in AtLeast(pend[c].mode)
            /\ held'[c][Db].mode =
                 IF IsHeld(c, Db) THEN held[c][Db].mode
                 ELSE IF engine = "none"
                      THEN (IF pend[c].mode \in {"IS", "S"} THEN "S" ELSE "X")
                      ELSE pend[c].mode]_vars

\* C4 witness: on an engine without collection-level locking a DBLock of
\* mode IX is complete, holding Global in IX and the database in X.
C4_Witness ==
    /\ engine = "none"
    /\ IsIdle("A") /\ Len(guards["A"]) = 1
    /\ guards["A"][1].kind = "DBLock" /\ guards["A"][1].mode = "IX"
    /\ held["A"][Global] = [mode |-> "IX", count |-> 1]
    /\ held["A"][Db] = [mode |-> "X", count |-> 1]

\* Guard g accounts for one lock of resource r.
GuardHolds(g, r) ==
    \/ g.kind \in {"GlobalWrite", "GlobalRead"} /\ r = Global
    \/ g.kind \in {"readlocktry", "writelocktry"} /\ g.flag /\ r = Global
    \/ g.kind = "DBLock" /\ r \in {Global, Db}
    \/ g.kind = "CollectionLock" /\ r = Coll
    \/ g.kind = "ResourceLock" /\ r = Gen

\* Number of live guards of c, constructed since its locks were last
\* released by a TempRelease, that account for a lock of r.
GuardCount(c, r) ==
    Cardinality({i \in 1..Len(guards[c]) : Locked(c, i) /\ GuardHolds(guards[c][i], r)})

\* C5: outside an operation the reference count of every resource in a
\* context's Locker equals the number of its live guards on that resource
\* (no lock left over, none released twice), so a context whose nested guards
\* have all been destroyed holds zero locks.
C5_ReleaseSymmetry ==
    \A c \in Ctx : IsIdle(c) =>
        /\ \A r \in Res : held[c][r].count = GuardCount(c, r)
        /\ guards[c] = <<>> => held[c] = EmptyLocks

\* C5 witness: a context has nested a Global, a Database, a Collection and
\* a Generic guard, which it can only leave in reverse order.
C5_Witness ==
    /\ IsIdle("A") /\ Len(guards["A"]) = 4
    /\ guards["A"][1].kind = "GlobalWrite"
    /\ guards["A"][2].kind = "DBLock"
    /\ guards["A"][3].kind = "CollectionLock"
    /\ guards["A"][4].kind = "ResourceLock"
    /\ held["A"][Global].count = 2 /\ held["A"][Gen].count = 1

\* Mode the guard c is constructing requests on Global.
RequestedGlobal(c) ==
    IF pend[c].kind = "GlobalWrite" THEN "X"
    ELSE IF pend[c].kind = "GlobalRead" THEN "S"
    ELSE IntentOf(pend[c].mode)

\* Modes that may not be held by another context together with m.
ConflictsWith(m) ==
    IF m = "X" THEN {"IS", "IX", "S", "X"}
    ELSE IF m = "S" THEN {"IX", "X"}
    ELSE IF m = "IX" THEN {"S", "X"}
    ELSE {"X"}

\* The Global request of c is a recursive one the claim covers: any mode
\* under X, S or IS under S.
RecursiveGlobal(c) ==
    /\ InLockGlobal(c)
    /\ IsHeld(c, Global)
    /\ \/ held[c][Global].mode = "X"
       \/ held[c][Global].mode = "S" /\ RequestedGlobal(c) \in {"S", "IS"}

\* The step of c destroys a guard and leaves a live guard of c that
\* accounts for a Global lock.
InnerDestroyed(c) ==
    /\ Len(guards'[c]) < Len(guards[c])
    /\ IsHeld(c, Global)
    /\ \E i \in 1..Len(guards'[c]) :
          Locked(c, i)' /\ GuardHolds(guards'[c][i], Global)

\* C6: a recursive request for Global is never blocked; its grant adds one
\* to the nesting depth and keeps the mode; destroying an inner guard leaves
\* Global held in the same mode, out of reach of every conflicting request of
\* another context.
C6_RecursiveGlobal ==
    /\ [](\A c \in Ctx : RecursiveGlobal(c) /\ ~aborted => ENABLED LockGlobalGrant(c))
    /\ [][\A c \in Ctx :
            RecursiveGlobal(c) /\ pend'[c].op \in {"idle", "lockDb"} =>
                held'[c][Global] =
                    [mode |-> held[c][Global].mode, count |-> held[c][Global].count + 1]]_vars
    /\ [][\A c \in Ctx : InnerDestroyed(c) =>
            /\ IsHeld(c, Global)'
            /\ held'[c][Global].mode = held[c][Global].mode
            /\ \A d \in Ctx \ {c} : \A m \in ConflictsWith(held[c][Global].mode) :
                   ~CanAcquire(d, Global, m)']_vars

\* C6 witness: a context holds Global in X twice, through a GlobalWrite and
\* a GlobalRead nested in it, while another context waits for Global.
C6_Witness ==
    /\ Len(guards["A"]) = 2 /\ IsIdle("A")
    /\ guards["A"][1].kind = "GlobalWrite" /\ guards["A"][2].kind = "GlobalRead"
    /\ held["A"][Global] = [mode |-> "X", count |-> 2]
    /\ pend["B"].op = "lockGlobal" /\ pend["B"].kind = "GlobalRead"

\* c is inside the construction of a Global guard built directly.
InAttempt(c) ==
    /\ pend[c].op \in {"lockGlobal", "waitGlobal", "threw"}
    /\ pend[c].kind \in {"GlobalRead", "GlobalWrite"}
    /\ pend[c].helper = "-"

\* Another context holds Global in a mode that conflicts with m.
GlobalConflict(c, m) ==
    \E d \in Ctx \ {c} : IsHeld(d, Global) /\ ~Compatible(held[d][Global].mode, m)

\* C7: from the start of the construction of a Global guard to the report
\* of its timeout the lock state of the context changes only by a grant;
\* the guards of the context are as before when the failure reaches the
\* caller; the construction fails only while another context holds Global in
\* a conflicting mode; and with timeout 0 against a conflicting holder the
\* failure is the one step the request can take, with no wait.
C7_TimeoutNoLeak ==
    /\ [][\A c \in Ctx :
            (InAttempt(c) \/ InAttempt(c)') /\ held'[c] # held[c] =>
                /\ InLockGlobal(c) /\ IsIdle(c)'
                /\ Len(guards'[c]) = Len(guards[c]) + 1
                /\ held'[c] = Acquired(held[c], Global, RequestedGlobal(c))]_vars
    /\ [][\A c \in Ctx :
            InAttempt(c) /\ pend[c].op = "threw" /\ pend'[c] # pend[c] =>
                IsIdle(c)' /\ guards'[c] = guards[c] /\ held'[c] = held[c]]_vars
    /\ [][\A c \in Ctx :
            InAttempt(c)' /\ pend'[c].op = "threw" /\ pend[c].op # "threw" =>
                /\ GlobalConflict(c, RequestedGlobal(c))
                /\ pend[c].tmo \in {"ZERO", "POS"}]_vars
    /\ [](\A c \in Ctx :
            /\ pend[c].op = "waitGlobal" => pend[c].tmo = "POS"
            /\ InAttempt(c) /\ pend[c].op = "lockGlobal" /\ pend[c].tmo = "ZERO"
                 /\ GlobalConflict(c, RequestedGlobal(c)) /\ ~aborted =>
                   /\ ENABLED LockGlobalTimeout(c)
                   /\ ~ENABLED LockGlobalGrant(c)
                   /\ ~ENABLED LockGlobalWait(c))

\* C7 witness: a GlobalRead built with timeout 0 has failed against a
\* context holding Global in X, and the requester holds a generic lock.
C7_Witness ==
    /\ InAttempt("A") /\ pend["A"].op = "threw" /\ pend["A"].tmo = "ZERO"
    /\ pend["A"].kind = "GlobalRead"
    /\ held["B"][Global].mode = "X"
    /\ IsHeld("A", Gen) /\ ~IsHeld("A", Global)

TryHelpers == {"readlocktry", "writelocktry"}

\* c is inside the construction of a readlocktry or writelocktry.
InHelper(c) == ~IsIdle(c) /\ pend[c].helper \in TryHelpers

WantedBy(helper) == IF helper = "readlocktry" THEN "S" ELSE "X"

Relockable == {"DBLock", "CollectionLock"}

\* Mode a relock of guard i of c starts from: _mode of a DBLock, the mode
\* the collection is held in for a CollectionLock.
RelockFrom(c, i) ==
    IF guards[c][i].kind = "DBLock" THEN guards[c][i].mode ELSE held[c][Coll].mode

ResOf(kind) == IF kind = "DBLock" THEN Db ELSE Coll

\* Upgrade of a mode on an engine without locking at the level below.
UpgradeOf(m) == IF m \in {"IS", "S"} THEN "S" ELSE "X"

\* The engine upgrades the modes of the guard kind.
Upgrades(kind) == IF kind = "DBLock" THEN engine = "none" ELSE engine # "doc"

\* The relock of c is complete in this step.
RelockCompleted(c) == pend[c].op = "relock" /\ IsIdle(c)'

\* Rejection and frame of a relock: a relock from S or IS to X or IX can only
\* be rejected, and the rejection changes no lock; a relock from X or IX is
\* never rejected and can start whenever the guard holds the only lock on
\* its resource; from its start to its end the ancestor locks (Global for a
\* DBLock, Global and the database for a CollectionLock) keep mode and count.
C9_RejectAndFrame ==
    /\ [](\A c \in Ctx : \A i \in 1..Len(guards[c]) : \A new \in Modes :
            CanStart(c) /\ Locked(c, i) /\ guards[c][i].kind \in Relockable =>
              /\ RelockFrom(c, i) \in {"S", "IS"} /\ new \in {"X", "IX"} =>
                   /\ ENABLED RelockAssert(c, i, new)
                   /\ ~ENABLED DBLockRelock(c, i, new)
                   /\ ~ENABLED CollectionLockRelock(c, i, new)
              /\ RelockFrom(c, i) \in {"X", "IX"} =>
                   /\ ~ENABLED RelockAssert(c, i, new)
                   /\ held[c][ResOf(guards[c][i].kind)].count = 1 =>
                        ENABLED (DBLockRelock(c, i, new) \/ CollectionLockRelock(c, i, new)))
    /\ [][aborted' /\ ~aborted => held' = held /\ guards' = guards]_vars
    /\ [][\A c \in Ctx : pend[c].op = "relock" \/ pend'[c].op = "relock" =>
            /\ held'[c][Global] = held[c][Global]
            /\ "CollectionLock" \in {pend[c].kind, pend'[c].kind} =>
                   held'[c][Db] = held[c][Db]]_vars

\* C9 as stated: with the rejection and the frame, every relock that is
\* not rejected ends with the resource held in the new mode.
C9_EndsInNewMode ==
    /\ C9_RejectAndFrame
    /\ [][\A c \in Ctx : RelockCompleted(c) =>
            held'[c][ResOf(pend[c].kind)].mode = pend[c].mode]_vars

\* C9 as amended: with the rejection and the frame, a relock that is not
\* rejected ends with the resource held in the new mode, or in its upgrade
\* (S for IS, X for IX) on an engine without locking at the level below,
\* when the guard holds the only lock of the context on the resource; when
\* another guard of the context holds the resource too, in the mode that
\* guard holds it in, which is at least as strong as the new mode.
C9_RelockRestriction ==
    /\ C9_RejectAndFrame
    /\ [][\A c \in Ctx : RelockCompleted(c) =>
            LET r == ResOf(pend[c].kind) IN
            /\ held'[c][r].count = held[c][r].count + 1
            /\ held'[c][r].mode \in AtLeast(pend[c].mode)
            /\ held'[c][r].mode =
                 IF IsHeld(c, r) THEN held[c][r].mode
                 ELSE IF Upgrades(pend[c].kind) THEN UpgradeOf(pend[c].mode)
                 ELSE pend[c].mode]_vars

\* C9 witness: a DBLock constructed in X has been relocked to S: the
\* database is held in S and Global still in IX, once.
C9_Witness ==
    /\ IsIdle("A") /\ Len(guards["A"]) = 1
    /\ guards["A"][1].kind = "DBLock" /\ guards["A"][1].mode = "S"
    /\ held["A"][Db] = [mode |-> "S", count |-> 1]
    /\ held["A"][Global] = [mode |-> "IX", count |-> 1]

\* c is in the gap of a Database relock: the database is released and not
\* yet locked in the new mode.
InDbRelockGap(c) == pend[c].op = "relock" /\ pend[c].kind = "DBLock"

\* C10: a Database relock starts with Global held in the intent mode of the
\* guard's old mode or a stronger one; in every state of the gap the context
\* holds Global, once for each of its guards on Global and one time less
\* than that on the database; every step from the start of the relock to
\* its end, of any context, leaves its Global lock as it is; and in the gap
\* no other context holds, or can be granted, Global in a mode that
\* conflicts with it.
C10_GapKeepsGlobal ==
    /\ [][\A c \in Ctx : ~InDbRelockGap(c) /\ InDbRelockGap(c)' =>
            /\ IsHeld(c, Global)
            /\ held[c][Global].mode \in AtLeast(IntentOf(guards[c][pend'[c].idx].mode))
            /\ held'[c][Db].count = held[c][Db].count - 1]_vars
    /\ [][\A c \in Ctx : InDbRelockGap(c) \/ InDbRelockGap(c)' =>
            held'[c][Global] = held[c][Global]]_vars
    /\ [](\A c \in Ctx : InDbRelockGap(c) =>
            /\ IsHeld(c, Global)
            /\ held[c][Global].count = GuardCount(c, Global)
            /\ held[c][Db].count = GuardCount(c, Db) - 1
            /\ \A d \in Ctx \ {c} :
                 /\ IsHeld(d, Global) =>
                        held[d][Global].mode \notin ConflictsWith(held[c][Global].mode)
                 /\ \A m \in ConflictsWith(held[c][Global].mode) :
                        ~CanAcquire(d, Global, m)
                 /\ InLockGlobal(d)
                      /\ RequestedGlobal(d) \in ConflictsWith(held[c][Global].mode) =>
                        ~ENABLED LockGlobalGrant(d))

\* C10 witness: a context is in the gap of a Database relock, holding
\* Global in IX and the database not at all, while the other context waits
\* for Global in X.
C10_Witness ==
    /\ InDbRelockGap("A")
    /\ ~IsHeld("A", Db)
    /\ held["A"][Global] = [mode |-> "IX", count |-> 1]
    /\ pend["B"].op = "lockGlobal" /\ pend["B"].kind = "GlobalWrite"

\* The re-acquisition of the gap is blocked by another holder of the
\* database.
C10_GapBlocked ==
    /\ InDbRelockGap("A")
    /\ ~IsHeld("A", Db)
    /\ IsHeld("B", Db)
    /\ ~CanAcquire("A", Db, RelockMode("A"))

\* c holds the database in a mode that suits a collection lock of mode m:
\* any mode for IS or S, IX or X for IX or X.
SuitableDb(c, m) == IsHeld(c, Db) /\ held[c][Db].mode \in AtLeast(IntentOf(m))

\* The step completes the construction of a CollectionLock of c.
CollectionLockBuilt(c) ==
    /\ Len(guards'[c]) = Len(guards[c]) + 1
    /\ Top(c)'.kind = "CollectionLock"

\* The check of the CollectionLock constructor: without a suitable database
\* lock the construction can only abort; a construction that completes
\* started with the database suitably held and leaves it as it is; the
\* abort changes no lock, and nothing runs after it.
C11_CheckedConstruction ==
    /\ [](\A c \in Ctx : \A m \in Modes : CanNest(c) /\ ~SuitableDb(c, m) =>
            /\ ~ENABLED CollectionLockCtor(c, m)
            /\ ENABLED CollectionLockAssert(c, m))
    /\ [][\A c \in Ctx : CollectionLockBuilt(c) =>
            /\ IsHeld(c, Db) /\ IsHeld(c, Coll)'
            /\ ~IsHeld(c, Coll) /\ held'[c][Coll].mode \in {"IX", "X"} =>
                   held[c][Db].mode \in {"IX", "X"}
            /\ held'[c][Db] = held[c][Db]]_vars
    /\ [][aborted' /\ ~aborted => held' = held /\ guards' = guards /\ pend' = pend]_vars
    /\ [][~aborted]_vars

\* C11 as stated: the checked construction, and in no reachable state a
\* context holds the collection without the database.
C11_NeverWithoutDatabase ==
    /\ C11_CheckedConstruction
    /\ [](\A c \in Ctx : IsHeld(c, Coll) => IsHeld(c, Db))

\* C11 as amended: the checked construction; a context that holds the
\* collection holds the database in every state reached without a database
\* relock made while the collection is held.
C11_CollectionNeedsDatabase ==
    /\ C11_CheckedConstruction
    /\ [][\A c \in Ctx :
            CollectionSuited(c) /\ ~RelockUnderCollection(c) =>
                (IsHeld(c, Coll)' => IsHeld(c, Db)')]_vars

\* C11 witness: a CollectionLock was constructed by a context holding no
\* lock at all: the operation is aborted and nothing is held.
C11_Witness ==
    /\ aborted
    /\ \A c \in Ctx : guards[c] = <<>> /\ held[c] = EmptyLocks /\ IsIdle(c)

\* The step completes the construction of a TempRelease of c.
TempReleaseBuilt(c) ==
    /\ Len(guards'[c]) = Len(guards[c]) + 1
    /\ Top(c)'.kind = "TempRelease"

\* The step completes the destruction of the TempRelease on top of c's
\* guards.
TempReleaseGone(c) ==
    /\ guards[c] # <<>>
    /\ Top(c).kind = "TempRelease"
    /\ Len(guards'[c]) = Len(guards[c]) - 1

\* The TempRelease on top of c's guards released the locks of c, and c has
\* constructed no guard since and is not restoring.
Suspended(c) ==
    /\ IsIdle(c)
    /\ guards[c] # <<>>
    /\ Top(c).kind = "TempRelease" /\ Top(c).flag

\* C12: a TempRelease that releases saves the lock state of its context as
\* it is and leaves the context with zero locks; the saved state stays as
\* it is while the guard lives; as long as the context takes no new lock it
\* holds none; when the guard is gone the context holds exactly the saved
\* state, resource by resource with mode and count; and with nothing held
\* the snapshot is empty and the destruction is one step that changes no
\* lock.
C12_SnapshotRoundTrip ==
    /\ [][\A c \in Ctx : TempReleaseBuilt(c) /\ Top(c)'.flag =>
            held'[c] = EmptyLocks /\ Top(c)'.snap = held[c]]_vars
    /\ [][\A c \in Ctx : \A i \in 1..Len(guards[c]) :
            i <= Len(guards'[c]) => guards'[c][i].snap = guards[c][i].snap]_vars
    /\ [](\A c \in Ctx : Suspended(c) => held[c] = EmptyLocks)
    /\ [][\A c \in Ctx : TempReleaseGone(c) /\ Top(c).flag =>
            held'[c] = Top(c).snap /\ IsIdle(c)']_vars
    /\ [][\A c \in Ctx : TempReleaseBuilt(c) /\ held[c] = EmptyLocks =>
            Top(c)'.snap = EmptyLocks /\ held'[c] = EmptyLocks]_vars
    /\ [](\A c \in Ctx : Suspended(c) /\ Top(c).snap = EmptyLocks /\ ~aborted =>
            ENABLED TempReleaseDtor(c) /\ ~ENABLED TempReleaseRestore(c))
    /\ [][\A c \in Ctx : Suspended(c) /\ Top(c).snap = EmptyLocks =>
            held'[c] = held[c] \/ Len(guards'[c]) > Len(guards[c])]_vars

\* C12 witness: the destruction of a TempRelease is restoring a snapshot of
\* Global and the database: Global is back as saved, the database not yet.
C12_Witness ==
    /\ pend["A"].op = "restore"
    /\ Top("A").snap[Global] = [mode |-> "IX", count |-> 1]
    /\ Top("A").snap[Db].count = 1
    /\ held["A"][Global] = Top("A").snap[Global]
    /\ ~IsHeld("A", Db)

\* c holds a lock recursively.
Recursive(c) == \E r \in Res : held[c][r].count > 1

\* The TempRelease on top of c's guards released nothing, and c is
\* outside every operation.
NotReleased(c) ==
    /\ IsIdle(c)
    /\ guards[c] # <<>>
    /\ Top(c).kind = "TempRelease" /\ ~Top(c).flag

\* C13: under recursive locking the construction of a TempRelease is
\* possible, raises no error, releases nothing, saves nothing and records
\* that (_locksReleased false, which it is only under recursive locking);
\* while the guard is the innermost one and the context starts nothing
\* else its lock state stays as it is; the destruction is one step, with
\* no restore, that changes no lock.
C13_GracefulDegradation ==
    /\ [](\A c \in Ctx : CanNest(c) /\ Recursive(c) => ENABLED TempReleaseCtor(c))
    /\ [][\A c \in Ctx : TempReleaseBuilt(c) /\ Recursive(c) =>
            /\ ~Top(c)'.flag /\ Top(c)'.snap = EmptyLocks
            /\ held'[c] = held[c]
            /\ ~aborted' /\ IsIdle(c)']_vars
    /\ [][\A c \in Ctx : TempReleaseBuilt(c) /\ ~Top(c)'.flag => Recursive(c)]_vars
    /\ [][\A c \in Ctx : NotReleased(c) =>
            \/ held'[c] = held[c]
            \/ Len(guards'[c]) > Len(guards[c])
            \/ ~IsIdle(c)']_vars
    /\ [](\A c \in Ctx : NotReleased(c) /\ ~aborted =>
            ENABLED TempReleaseDtor(c) /\ ~ENABLED TempReleaseRestore(c))
    /\ [][\A c \in Ctx : TempReleaseGone(c) /\ ~Top(c).flag =>
            held'[c] = held[c] /\ IsIdle(c) /\ IsIdle(c)']_vars

\* C13 witness: a TempRelease constructed inside a GlobalRead nested in a
\* GlobalWrite released nothing: Global is still held in X, twice.
C13_Witness ==
    /\ NotReleased("A") /\ Len(guards["A"]) = 3
    /\ guards["A"][1].kind = "GlobalWrite" /\ guards["A"][2].kind = "GlobalRead"
    /\ held["A"][Global] = [mode |-> "X", count |-> 2]

\* c has a live guard of the kind.
HasGuard(c, kind) == \E i \in 1..Len(guards[c]) : guards[c][i].kind = kind

\* c is blocked, or would block, at the shared lock of the batch lock: it
\* waits in it, and no guard construction of c can pass it.
CheckBlocked(d) ==
    /\ pend[d].op = "pbws" => ~ENABLED PbwsLockShared(d)
    /\ ~isBatchWriter[d] =>
          /\ ~ENABLED GlobalWriteCtor(d, "INF")
          /\ ~ENABLED GlobalReadCtor(d, "INF")
          /\ \A m \in Modes : ~ENABLED DBLockCtor(d, m)

BarrierHolders == {c \in Ctx : HasGuard(c, "ParallelBatchWriterMode")}

ScopedKinds == {"GlobalWrite", "GlobalRead", "DBLock"}

\* c has a live Global or Database guard.
HasScopedGuard(c) == \E i \in 1..Len(guards[c]) : guards[c][i].kind \in ScopedKinds

\* C18: a Global or Database guard of a context that is not a batch
\* participant holds the shared side of the batch lock from the step that
\* completes its construction to its destruction, and no other guard holds
\* it; so the exclusive side is never held by one context while another
\* context that is not a participant has a live Global or Database guard,
\* and cannot be taken then; Collection and Generic guards do not stand in
\* the way of the exclusive side.
C18_GuardsHoldSharedSide ==
    /\ [](\A c \in Ctx : \A i \in 1..Len(guards[c]) :
            /\ guards[c][i].kind \in ScopedKinds /\ ~isBatchWriter[c] => guards[c][i].pbws
            /\ guards[c][i].kind \notin ScopedKinds => ~guards[c][i].pbws)
    /\ [][\A c \in Ctx : \A i \in 1..Len(guards[c]) :
            i <= Len(guards'[c]) => guards'[c][i].pbws = guards[c][i].pbws]_vars
    /\ [](\A c \in Ctx : \A d \in Ctx \ {c} :
            ~isBatchWriter[d] /\ HasScopedGuard(d) =>
                /\ batchExcl # c
                /\ ~ENABLED ParallelBatchWriterModeCtor(c))
    /\ [](\A c \in Ctx :
            /\ CanNest(c) /\ guards[c] = <<>> /\ batchExcl = NoCtx
            /\ \A d \in Ctx \ {c} : IsIdle(d) /\ ~HasScopedGuard(d)
            => ENABLED ParallelBatchWriterModeCtor(c))

\* C18 witness: a context that is not a batch participant holds the shared
\* side through its DBLock and not through the CollectionLock nested in it.
C18_Witness ==
    /\ ~isBatchWriter["A"] /\ IsIdle("A")
    /\ Len(guards["A"]) = 2
    /\ guards["A"][1].kind = "DBLock" /\ guards["A"][1].pbws
    /\ guards["A"][2].kind = "CollectionLock" /\ ~guards["A"][2].pbws
    /\ guards["B"] = <<>> /\ IsIdle("B") /\ batchExcl = NoCtx

\* The step completes the construction of a ResourceLock of c.
ResourceLockBuilt(c) ==
    /\ Len(guards'[c]) = Len(guards[c]) + 1
    /\ Top(c)'.kind = "ResourceLock"

\* The step destroys the ResourceLock on top of c's guards.
ResourceLockGone(c) ==
    /\ guards[c] # <<>>
    /\ Top(c).kind = "ResourceLock"
    /\ Len(guards'[c]) = Len(guards[c]) - 1

\* No other context holds the generic resource in a mode that conflicts
\* with m.
GenFree(c, m) ==
    \A d \in Ctx \ {c} :
        IsHeld(d, Gen) => held[d][Gen].mode \notin ConflictsWith(m)

BarrierDeadlock(h, d) ==
    /\ batchExcl = h
    /\ InLockGlobal(h)
    /\ ~CanAcquire(h, Global, PendGlobalMode(h))
    /\ IsHeld(d, Global)
    /\ pend[d].op = "pbws"

\* The exclusive holder of the batch lock has requested Global in X through
\* a GlobalWrite.
HolderWantsGlobalX(h) ==
    /\ batchExcl = h
    /\ InLockGlobal(h)
    /\ pend[h].kind = "GlobalWrite"

\* The GlobalWrite of h is complete.
GlobalWriteBuilt(h) ==
    /\ IsIdle(h)
    /\ guards[h] # <<>>
    /\ Top(h).kind = "GlobalWrite"
    /\ held[h][Global].mode = "X"

\* No context but h holds Global.
GlobalLeftTo(h) == \A d \in Ctx \ {h} : ~IsHeld(d, Global)

\* C19: a context that waits at the shared lock of the batch lock holds no
\* Global lock, so the exclusive holder never waits for Global behind a
\* context that waits for the batch lock; the holder's request of Global in
\* X can be granted in every state in which no other context holds Global,
\* and is eventually granted (unless the process is aborted) when from some
\* point on no other context holds Global.
C19_NoBarrierDeadlock ==
    /\ [](\A h \in Ctx : \A d \in Ctx \ {h} : ~BarrierDeadlock(h, d))
    /\ [](\A d \in Ctx : pend[d].op = "pbws" => ~IsHeld(d, Global))
    /\ [](\A h \in Ctx : HolderWantsGlobalX(h) /\ GlobalLeftTo(h) /\ ~aborted =>
            ENABLED LockGlobalGrant(h))
    /\ \A h \in Ctx :
          <>[]GlobalLeftTo(h) =>
              (HolderWantsGlobalX(h) ~> (GlobalWriteBuilt(h) \/ aborted))

\* C19 witness: the exclusive holder of the batch lock waits for Global in
\* X, which a batch participant holds through a live guard.
C19_Witness ==
    /\ HolderWantsGlobalX("A")
    /\ ~CanAcquire("A", Global, "X")
    /\ isBatchWriter["B"]
    /\ IsIdle("B") /\ HasScopedGuard("B") /\ IsHeld("B", Global)
    /\ ~aborted

\* The destruction of the TempRelease on top of c's guards, which released
\* the locks of c, is under way or is the step being taken.
Restoring(c) ==
    /\ guards[c] # <<>>
    /\ Top(c).kind = "TempRelease" /\ Top(c).flag
    /\ \/ pend[c].op = "restore"
       \/ IsIdle(c) /\ Len(guards'[c]) < Len(guards[c])

\* The restore of c has reached a resource that another context holds in a
\* mode that conflicts with the saved one.
RestoreBlocked(c) ==
    /\ pend[c].op = "restore"
    /\ LET r == Head(ToRestore(c))
       IN \E d \in Ctx \ {c} :
             /\ IsHeld(d, r)
             /\ ~Compatible(held[d][r].mode, Top(c).snap[r].mode)

\* C20: while a TempRelease has the locks of its context released, the
\* request of another context for a resource it does not hold yet can be
\* granted in every mode, whatever the snapshot says; the restore locks a
\* resource, in the saved mode and count, only in a state in which every
\* other holder of it is compatible with the saved mode, and cannot go on
\* while a conflicting holder is there; so when the guard is gone the
\* restored locks are compatible with those of every other context.
C20_RestoreRespectsHolders ==
    /\ [](\A c \in Ctx : \A d \in Ctx \ {c} : \A r \in Res : \A m \in Modes :
            Suspended(c) /\ ~IsHeld(d, r) => CanAcquire(d, r, m))
    /\ [][\A c \in Ctx : \A r \in Res :
            Restoring(c) /\ ~IsHeld(c, r) /\ IsHeld(c, r)' =>
                /\ held'[c][r] = Top(c).snap[r]
                /\ \A d \in Ctx \ {c} :
                      /\ held'[d] = held[d]
                      /\ IsHeld(d, r) =>
                            Compatible(held[d][r].mode, Top(c).snap[r].mode)]_vars
    /\ [](\A c \in Ctx : RestoreBlocked(c) => ~ENABLED RestoreStep(c))
    /\ [][\A c \in Ctx : RestoreBlocked(c) =>
            held'[c] = held[c] /\ guards'[c] = guards[c]]_vars
    /\ [][\A c \in Ctx : TempReleaseGone(c) /\ Top(c).flag =>
            \A d \in Ctx \ {c} : \A r \in Res :
                IsHeld(c, r)' /\ IsHeld(d, r)' =>
                    Compatible(held'[c][r].mode, held'[d][r].mode)]_vars

\* C20 witness: the restore of one context waits for Global, which the other
\* context took in a conflicting mode while the locks were released.
C20_Witness ==
    /\ RestoreBlocked("A")
    /\ Head(ToRestore("A")) = Global
    /\ Top("A").snap[Db].count = 1
    /\ held["A"] = EmptyLocks
    /\ ~aborted

====
